---- MODULE Spec2Model ----
(***************************************************************************)
(* Article generator (server.js and its later variants): the request       *)
(* handler of POST /api/generate, the header reconciliation                *)
(* (fixFrontmatterFormat and its helpers) and the publish sequence.        *)
(*                                                                         *)
(* Text is a sequence of tokens.  A token stands for a literal piece of    *)
(* text that the regular expressions of the source treat as a unit: the    *)
(* delimiter '---', a line break, a space, '#', '**', ':', '"', or a word. *)
(***************************************************************************)
EXTENDS Integers, Sequences, FiniteSets, TLC

----------------------------------------------------------------------------
\* Tokens

NL == "<nl>"
SP == "<sp>"
DQ == "<dq>"
BSL == "<bsl>"
HASH == "#"
DASH3 == "---"
STAR2 == "**"
COLON == ":"

IsWs(t) == t \in {SP, NL}

\* String.prototype.toLowerCase, token by token
Lower(t) ==
  CASE t = "Title" -> "title"
    [] t = "Summary" -> "summary"
    [] t = "Foo" -> "foo"
    [] t = "Bar" -> "bar"
    [] t = "Text" -> "text"
    [] t = "AI" -> "ai"
    [] t = "Tech" -> "tech"
    [] t = "Web" -> "web"
    [] t = "Article" -> "article"
    [] t = "Untitled Article" -> "untitled article"
    [] OTHER -> t

LowerSeq(s) == [i \in 1..Len(s) |-> Lower(s[i])]

----------------------------------------------------------------------------
\* String primitives of the runtime, on token sequences

MinOf(S) == CHOOSE x \in S : \A y \in S : x <= y
MaxOf(S) == CHOOSE x \in S : \A y \in S : x >= y

From(s, i) == SubSeq(s, i, Len(s))

\* String.prototype.trim
Trim(s) ==
  LET idx == {i \in 1..Len(s) : ~IsWs(s[i])}
  IN IF idx = {} THEN <<>> ELSE SubSeq(s, MinOf(idx), MaxOf(idx))

\* String.prototype.startsWith
StartsWith(s, p) == Len(s) >= Len(p) /\ SubSeq(s, 1, Len(p)) = p

\* String.prototype.split with a one-token separator
RECURSIVE Split(_, _)
Split(s, sep) ==
  LET idx == {i \in 1..Len(s) : s[i] = sep}
  IN IF idx = {} THEN <<s>>
     ELSE <<SubSeq(s, 1, MinOf(idx) - 1)>> \o Split(From(s, MinOf(idx) + 1), sep)

\* Array.prototype.join
RECURSIVE Join(_, _)
Join(parts, sep) ==
  IF parts = <<>> THEN <<>>
  ELSE IF Len(parts) = 1 THEN parts[1]
  ELSE parts[1] \o sep \o Join(Tail(parts), sep)

\* index of the end of the line that holds position i: the first line break
\* at or after i, or Len(s) + 1
EndOfLine(s, i) ==
  LET idx == {j \in i..Len(s) : s[j] = NL}
  IN IF idx = {} THEN Len(s) + 1 ELSE MinOf(idx)

\* end of the greedy run of tokens of T that starts at i: the first index at or
\* after i whose token is not in T, or Len(s) + 1
RunEnd(s, i, T) ==
  LET idx == {j \in i..Len(s) : s[j] \notin T}
  IN IF idx = {} THEN Len(s) + 1 ELSE MinOf(idx)

\* end of the greedy run of tokens outside T that starts at i ([^...]+)
RunEndNot(s, i, T) ==
  LET idx == {j \in i..Len(s) : s[j] \in T}
  IN IF idx = {} THEN Len(s) + 1 ELSE MinOf(idx)

NotQuoteNorBreak(t) == t \notin {DQ, NL}

AtLineStart(s, i) == i = 1 \/ s[i - 1] = NL

----------------------------------------------------------------------------
\* The three clean-up substitutions (generateArticle and fixFrontmatterFormat)

IsLabel(t) == Lower(t) \in {"title", "summary"}

\* /^(#+\s*)?(Title|Summary):.*$/gim at line start i: the index just after the
\* match, or 0 when there is none
LabelMatchEnd(s, i) ==
  LET h == RunEnd(s, i, {HASH})
      k == RunEnd(s, h, {SP, NL})
      withPrefix == h > i /\ k + 1 <= Len(s) /\ IsLabel(s[k]) /\ s[k + 1] = COLON
      bare == i + 1 <= Len(s) /\ IsLabel(s[i]) /\ s[i + 1] = COLON
  IN IF withPrefix THEN EndOfLine(s, k + 2)
     ELSE IF bare THEN EndOfLine(s, i + 2)
     ELSE 0

RECURSIVE RemoveLabelLinesFrom(_, _)
RemoveLabelLinesFrom(s, i) ==
  IF i > Len(s) THEN <<>>
  ELSE IF AtLineStart(s, i) /\ LabelMatchEnd(s, i) # 0
       THEN RemoveLabelLinesFrom(s, LabelMatchEnd(s, i))
       ELSE <<s[i]>> \o RemoveLabelLinesFrom(s, i + 1)

\* content.replace(/^(#+\s*)?(Title|Summary):.*$/gim, '')
RemoveLabelLines(s) == RemoveLabelLinesFrom(s, 1)

\* /\*\*(.*?)\*\*/g at i: index of the closing marker, or 0
BoldClose(s, i) ==
  LET idx == {j \in (i + 1)..(EndOfLine(s, i) - 1) : s[j] = STAR2}
  IN IF s[i] = STAR2 /\ idx # {} THEN MinOf(idx) ELSE 0

RECURSIVE StripBoldFrom(_, _)
StripBoldFrom(s, i) ==
  IF i > Len(s) THEN <<>>
  ELSE IF BoldClose(s, i) # 0
       THEN SubSeq(s, i + 1, BoldClose(s, i) - 1) \o StripBoldFrom(s, BoldClose(s, i) + 1)
       ELSE <<s[i]>> \o StripBoldFrom(s, i + 1)

\* content.replace(/\*\*(.*?)\*\*/g, '$1')
StripBold(s) == StripBoldFrom(s, 1)

RECURSIVE CollapseBreaksFrom(_, _)
CollapseBreaksFrom(s, i) ==
  IF i > Len(s) THEN <<>>
  ELSE IF s[i] = NL
       THEN LET e == RunEnd(s, i, {NL})
            IN (IF e - i >= 3 THEN <<NL, NL>> ELSE SubSeq(s, i, e - 1))
               \o CollapseBreaksFrom(s, e)
       ELSE <<s[i]>> \o CollapseBreaksFrom(s, i + 1)

\* the same substitution with the pattern /\n{4,}/g: a run of three stays
RECURSIVE CollapseFromFour(_, _)
CollapseFromFour(s, i) ==
  IF i > Len(s) THEN <<>>
  ELSE IF s[i] = NL
       THEN LET e == RunEnd(s, i, {NL})
            IN (IF e - i >= 4 THEN <<NL, NL>> ELSE SubSeq(s, i, e - 1))
               \o CollapseFromFour(s, e)
       ELSE <<s[i]>> \o CollapseFromFour(s, i + 1)

CollapseBreaks_fromFour(s) == CollapseFromFour(s, 1)

\* content.replace(/\n{3,}/g, '\n\n')
CollapseBreaks(s) == CollapseBreaksFrom(s, 1)

\* the three substitutions in the order both functions apply them
CleanUp(s) == CollapseBreaks(StripBold(RemoveLabelLines(s)))

----------------------------------------------------------------------------
\* Field extraction

NoMatch == [ok |-> FALSE, val |-> <<>>]

\* \s*["']?([^"'\n]+)["']? tried at position p (just after the colon) of a
\* line: the captured group.  \s* is greedy and gives characters back when the
\* group would otherwise be empty, so a value of only a quote pair after a
\* space captures that space.
ValueMatchAt(s, p) ==
  LET q == RunEnd(s, p, {SP, NL})
      run(a) == SubSeq(s, a, RunEndNot(s, a, {DQ, NL}) - 1)
  IN IF q <= Len(s) /\ NotQuoteNorBreak(s[q]) THEN [ok |-> TRUE, val |-> run(q)]
     ELSE IF q + 1 <= Len(s) /\ s[q] = DQ /\ NotQuoteNorBreak(s[q + 1])
          THEN [ok |-> TRUE, val |-> run(q + 1)]
     ELSE IF q > p /\ s[q - 1] = SP THEN [ok |-> TRUE, val |-> run(q - 1)]
     ELSE NoMatch

\* the leftmost position of `starts` where the value pattern matches
FirstValueMatch(s, starts) ==
  LET hits == {p \in starts : ValueMatchAt(s, p).ok}
  IN IF hits = {} THEN NoMatch ELSE ValueMatchAt(s, MinOf(hits))

TitleKeyStarts(s) ==
  {i + 2 : i \in {j \in 1..(Len(s) - 1) : Lower(s[j]) = "title" /\ s[j + 1] = COLON}}

ColonStarts(s) == {i + 1 : i \in {j \in 1..Len(s) : s[j] = COLON}}

\* line.match(/title:\s*["']?([^"'\n]+)["']?/i)
extractTitleFromLine(line) ==
  LET m == FirstValueMatch(line, TitleKeyStarts(line))
  IN IF m.ok THEN Trim(m.val) ELSE <<>>

\* server.js: the same match, 'Article' when there is none
extractTitleFromLine_server(line) ==
  LET m == FirstValueMatch(line, TitleKeyStarts(line))
  IN IF m.ok THEN Trim(m.val) ELSE <<"Article">>

\* line.match(/:\s*["']?([^"'\n]+)["']?/i)
extractValueFromLine(line) ==
  LET m == FirstValueMatch(line, ColonStarts(line))
  IN IF m.ok THEN Trim(m.val) ELSE <<>>

\* /title:\s*["']([^"']+)["']/i tried at position p of the whole text: both
\* quotes are required and the group may span lines
QuotedTitleAt(s, p) ==
  LET q == RunEnd(s, p, {SP, NL})
      e == RunEndNot(s, q + 1, {DQ})
  IN IF q <= Len(s) /\ s[q] = DQ /\ e > q + 1 /\ e <= Len(s)
     THEN [ok |-> TRUE, val |-> SubSeq(s, q + 1, e - 1)]
     ELSE NoMatch

\* generateArticle: the title kept for the cover image
titleMatch(content) ==
  LET hits == {p \in TitleKeyStarts(content) : QuotedTitleAt(content, p).ok}
  IN IF hits = {} THEN <<"Article">>
     ELSE Trim(QuotedTitleAt(content, MinOf(hits)).val)

\* /^#\s+(.+)$/m tried at line start i: \s+ is greedy and spans line breaks,
\* and gives characters back until (.+) can start on a character of a line
H1MatchAt(s, i) ==
  LET e == RunEnd(s, i + 1, {SP, NL})
      back == {q \in (i + 2)..(e - 1) : s[q] # NL}
  IN IF ~(AtLineStart(s, i) /\ s[i] = HASH /\ e > i + 1) THEN NoMatch
     ELSE IF e <= Len(s) THEN [ok |-> TRUE, val |-> SubSeq(s, e, EndOfLine(s, e) - 1)]
     ELSE IF back # {}
          THEN [ok |-> TRUE, val |-> SubSeq(s, MaxOf(back), EndOfLine(s, MaxOf(back)) - 1)]
     ELSE NoMatch

\* body.match(/^#\s+(.+)$/m)
H1Match(body) ==
  LET hits == {i \in 1..Len(body) : H1MatchAt(body, i).ok}
  IN IF hits = {} THEN NoMatch ELSE H1MatchAt(body, MinOf(hits))

\* str.replace(/^#+\s*/, '')
StripHeadingMarkers(s) ==
  LET h == RunEnd(s, 1, {HASH})
  IN IF h > 1 THEN From(s, RunEnd(s, h, {SP, NL})) ELSE s

extractTitleFromBody(body) ==
  LET lines == Split(body, NL)
      nonBlank == {i \in 1..Len(lines) : Trim(lines[i]) # <<>>}
  IN IF H1Match(body).ok THEN Trim(H1Match(body).val)
     ELSE IF nonBlank # {} THEN StripHeadingMarkers(Trim(lines[MinOf(nonBlank)]))
     ELSE <<"Untitled Article">>

\* server.js: no fallback chain
extractTitleFromBody_server(body) ==
  IF H1Match(body).ok THEN Trim(H1Match(body).val) ELSE <<"Article">>

\* /^#\s+/.test(line)
IsH1Line(line) == Len(line) >= 2 /\ line[1] = HASH /\ IsWs(line[2])

extractDescriptionFromBody(body) ==
  LET lines == Split(body, NL)
      h1 == {i \in 1..Len(lines) : IsH1Line(lines[i])}
      after == IF h1 = {} THEN {}
               ELSE {i \in (MinOf(h1) + 1)..Len(lines) :
                       Trim(lines[i]) # <<>> /\ ~StartsWith(lines[i], <<HASH>>)}
  IN IF after # {} THEN Trim(lines[MinOf(after)])
     ELSE <<"Learn more about", SP>> \o LowerSeq(extractTitleFromBody(body)) \o <<".">>

RECURSIVE EscapeQuotes(_)
EscapeQuotes(s) ==
  IF s = <<>> THEN <<>>
  ELSE (IF Head(s) = DQ THEN <<BSL, DQ>> ELSE <<Head(s)>>) \o EscapeQuotes(Tail(s))

escapeYamlString(str) ==
  IF str = <<>> THEN <<>>
  ELSE Trim([i \in 1..Len(EscapeQuotes(str)) |->
               IF EscapeQuotes(str)[i] = NL THEN SP ELSE EscapeQuotes(str)[i]])

----------------------------------------------------------------------------
\* Emoji decoration

\* emojiMap, in insertion order (the order Object.entries walks)
emojiMap ==
  << [key |-> <<"ai">>, emoji |-> "E-robot"],
     [key |-> <<"artificial", SP, "intelligence">>, emoji |-> "E-robot"],
     [key |-> <<"machine", SP, "learning">>, emoji |-> "E-brain"],
     [key |-> <<"tech">>, emoji |-> "E-laptop"],
     [key |-> <<"technology">>, emoji |-> "E-laptop"],
     [key |-> <<"programming">>, emoji |-> "E-bolt"],
     [key |-> <<"coding">>, emoji |-> "E-bolt"],
     [key |-> <<"web">>, emoji |-> "E-globe"],
     [key |-> <<"design">>, emoji |-> "E-palette"],
     [key |-> <<"writing">>, emoji |-> "E-pen"],
     [key |-> <<"blog">>, emoji |-> "E-memo"],
     [key |-> <<"marketing">>, emoji |-> "E-chart"],
     [key |-> <<"business">>, emoji |-> "E-briefcase"],
     [key |-> <<"finance">>, emoji |-> "E-moneybag"],
     [key |-> <<"health">>, emoji |-> "E-hospital"],
     [key |-> <<"fitness">>, emoji |-> "E-muscle"],
     [key |-> <<"food">>, emoji |-> "E-plate"],
     [key |-> <<"travel">>, emoji |-> "E-plane"],
     [key |-> <<"music">>, emoji |-> "E-note"],
     [key |-> <<"gaming">>, emoji |-> "E-gamepad"],
     [key |-> <<"sports">>, emoji |-> "E-ball"],
     [key |-> <<"education">>, emoji |-> "E-books"],
     [key |-> <<"science">>, emoji |-> "E-microscope"],
     [key |-> <<"space">>, emoji |-> "E-rocket"],
     [key |-> <<"environment">>, emoji |-> "E-seedling"],
     [key |-> <<"sustainability">>, emoji |-> "E-seedling"] >>

\* emojiMap[lowerTag]: an own key of the table, or a property every object
\* inherits; "" stands for undefined
ValueAt(lowerTag) ==
  LET own == {i \in 1..Len(emojiMap) : emojiMap[i].key = lowerTag}
  IN IF own # {} THEN emojiMap[MinOf(own)].emoji
     ELSE IF lowerTag = <<"constructor">> THEN "function Object() { [native code] }"
     ELSE IF lowerTag = <<"__proto__">> THEN "[object Object]"
     ELSE ""

\* the table keywords that occur inside a lower-case word
KeywordsIn(w) ==
  CASE w = "technology" -> {"tech", "technology"}
    [] w = "maintain" -> {"ai"}
    [] w = "website" -> {"web"}
    [] OTHER -> {w}

\* lowerPrompt.includes(keyword)
Includes(lowerPrompt, keyword) ==
  IF Len(keyword) = 1
  THEN \E i \in 1..Len(lowerPrompt) : keyword[1] \in KeywordsIn(lowerPrompt[i])
  ELSE \E i \in 1..Len(lowerPrompt) :
         i + Len(keyword) - 1 <= Len(lowerPrompt)
         /\ SubSeq(lowerPrompt, i, i + Len(keyword) - 1) = keyword

addEmojiToTitle(title, tags, prompt) ==
  LET tagHits == {i \in 1..Len(tags) : ValueAt(LowerSeq(tags[i])) # ""}
      lowerPrompt == LowerSeq(prompt)
      keyHits == {i \in 1..Len(emojiMap) : Includes(lowerPrompt, emojiMap[i].key)}
  IN IF tagHits # {} THEN <<ValueAt(LowerSeq(tags[MinOf(tagHits)])), SP>> \o title
     ELSE IF keyHits # {} THEN <<emojiMap[MinOf(keyHits)].emoji, SP>> \o title
     ELSE IF Includes(lowerPrompt, <<"ai">>)
             \/ Includes(lowerPrompt, <<"artificial", SP, "intelligence">>)
          THEN <<"E-robot", SP>> \o title
     ELSE IF Includes(lowerPrompt, <<"tech">>) \/ Includes(lowerPrompt, <<"programming">>)
          THEN <<"E-laptop", SP>> \o title
     ELSE IF Includes(lowerPrompt, <<"writing">>) \/ Includes(lowerPrompt, <<"blog">>)
          THEN <<"E-pen", SP>> \o title
     ELSE <<"E-memo", SP>> \o title

----------------------------------------------------------------------------
\* Header composition

QuotedEscapedTag(t) == <<DQ>> \o escapeYamlString(Trim(t)) \o <<DQ>>
QuotedTag(t) == <<DQ>> \o Trim(t) \o <<DQ>>

\* `tags: [${tags.map(t => `"${escapeYamlString(t.trim())}"`).join(', ')}]`
TagsLine(tags) ==
  <<"tags", COLON, SP, "[">> \o Join([k \in 1..Len(tags) |-> QuotedEscapedTag(tags[k])], <<",", SP>>) \o <<"]">>

\* server.js: `tags: [${tags.map(t => `"${t.trim()}"`).join(', ')}]`
TagsLine_server(tags) ==
  <<"tags", COLON, SP, "[">> \o Join([k \in 1..Len(tags) |-> QuotedTag(tags[k])], <<",", SP>>) \o <<"]">>

DateLine(date) == <<"date", COLON, SP>> \o date

\* the last line of the header block whose trimmed text starts with `key:`
HeaderLinesWith(frontmatter, key) ==
  LET lines == Split(frontmatter, NL)
  IN {i \in 1..Len(lines) : StartsWith(Trim(lines[i]), <<key, COLON>>)}

\* fixFrontmatterFormat, lines 144-169: the fields and the body of the draft
ParseDraft(content) ==
  LET parts == Split(content, DASH3)
      frontmatter == Trim(parts[2])
      lines == Split(frontmatter, NL)
      \* the loop keeps the value of the last line of each key; a line is
      \* a title line first, a description line second, a cover line third
      t == HeaderLinesWith(frontmatter, "title")
      d == HeaderLinesWith(frontmatter, "description")
      c == HeaderLinesWith(frontmatter, "cover")
  IN IF Len(parts) >= 3
     THEN [title |-> IF t = {} THEN <<>> ELSE extractTitleFromLine(lines[MaxOf(t)]),
           description |-> IF d = {} THEN <<>> ELSE extractValueFromLine(lines[MaxOf(d)]),
           cover |-> IF c = {} THEN <<>> ELSE extractValueFromLine(lines[MaxOf(c)]),
           body |-> Trim(Join(SubSeq(parts, 3, Len(parts)), <<DASH3>>))]
     ELSE [title |-> <<>>, description |-> <<>>, cover |-> <<>>,
           body |-> Trim(Join(parts, <<DASH3>>))]

\* fixFrontmatterFormat, lines 171-177: the title after fallback and decoration
ResolvedTitle(content, tags, prompt) ==
  LET f == ParseDraft(content)
  IN addEmojiToTitle(IF f.title = <<>> THEN extractTitleFromBody(f.body) ELSE f.title,
                     tags, prompt)

ResolvedDescription(content) ==
  LET f == ParseDraft(content)
  IN IF f.description = <<>> THEN extractDescriptionFromBody(f.body) ELSE f.description

\* fixFrontmatterFormat, lines 179-188: the body that follows the header
FinalBody(content, tags, prompt) ==
  LET body == Trim(CleanUp(ParseDraft(content).body))
  IN IF StartsWith(body, <<HASH, SP>>) THEN body
     ELSE <<HASH, SP>> \o ResolvedTitle(content, tags, prompt) \o <<NL, NL>> \o body

fixFrontmatterFormat(content, date, tags, prompt) ==
  Join(<< <<DASH3>>,
          <<"title", COLON, SP, DQ>> \o escapeYamlString(ResolvedTitle(content, tags, prompt)) \o <<DQ>>,
          <<"description", COLON, SP, DQ>> \o escapeYamlString(ResolvedDescription(content)) \o <<DQ>>,
          DateLine(date),
          TagsLine(tags),
          <<"cover", COLON, SP, DQ>> \o ParseDraft(content).cover \o <<DQ>>,
          <<DASH3>>,
          <<>> >>, <<NL>>)
  \o FinalBody(content, tags, prompt)

----------------------------------------------------------------------------
\* server.js: the first variant of the header repair

\* fixedLines.push(...) for one non-blank line of the draft's header
FixLine_server(line, date, tags) ==
  LET trimmed == Trim(line)
  IN IF StartsWith(trimmed, <<"title", COLON>>)
     THEN <<"title", COLON, SP, DQ>> \o extractTitleFromLine_server(line) \o <<DQ>>
     ELSE IF StartsWith(trimmed, <<"description", COLON>>)
     THEN <<"description", COLON, SP, DQ>> \o extractValueFromLine(line) \o <<DQ>>
     ELSE IF StartsWith(trimmed, <<"date", COLON>>) THEN DateLine(date)
     ELSE IF StartsWith(trimmed, <<"tags", COLON>>) THEN TagsLine_server(tags)
     ELSE line

RECURSIVE FixLines_server(_, _, _)
FixLines_server(lines, date, tags) ==
  IF lines = <<>> THEN <<>>
  ELSE (IF Trim(Head(lines)) = <<>> THEN <<>>
        ELSE << FixLine_server(Head(lines), date, tags) >>)
       \o FixLines_server(Tail(lines), date, tags)

\* fixedLines.some(line => line.startsWith(`key:`))
HasKey(fixedLines, key) ==
  \E i \in 1..Len(fixedLines) : StartsWith(fixedLines[i], <<key, COLON>>)

\* fixedLines.splice(at, 0, line): past the end it appends
Splice(fixedLines, at, line) ==
  LET n == IF at > Len(fixedLines) THEN Len(fixedLines) ELSE at
  IN SubSeq(fixedLines, 1, n) \o <<line>> \o SubSeq(fixedLines, n + 1, Len(fixedLines))

\* server.js lines 189-207: the fields added when the header lacks them
EnsureFields_server(fixedLines, body, date, tags) ==
  LET l1 == IF HasKey(fixedLines, "title") THEN fixedLines
            ELSE Splice(fixedLines, 0,
                        <<"title", COLON, SP, DQ>> \o extractTitleFromBody_server(body) \o <<DQ>>)
      l2 == IF HasKey(fixedLines, "description") THEN l1
            ELSE Splice(l1, 1, <<"description", COLON, SP, DQ, "Generated article", DQ>>)
      l3 == IF HasKey(fixedLines, "date") THEN l2 ELSE Splice(l2, 2, DateLine(date))
      l4 == IF HasKey(fixedLines, "tags") THEN l3 ELSE Splice(l3, 3, TagsLine_server(tags))
  IN l4

fixFrontmatterFormat_server(content, date, tags) ==
  LET parts == Split(content, DASH3)
      frontmatter == Trim(parts[2])
      body == Trim(Join(SubSeq(parts, 3, Len(parts)), <<DASH3>>))
      fixedLines == FixLines_server(Split(frontmatter, NL), date, tags)
  IN IF Len(parts) < 3
     THEN Join(<< <<DASH3>>,
                  <<"title", COLON, SP, DQ>> \o extractTitleFromBody_server(content) \o <<DQ>>,
                  <<"description", COLON, SP, DQ, "Generated article", DQ>>,
                  DateLine(date),
                  TagsLine_server(tags),
                  <<"cover", COLON, SP, DQ, DQ>>,
                  <<DASH3>>,
                  <<>>,
                  content >>, <<NL>>)
     ELSE <<DASH3, NL>>
          \o Join(EnsureFields_server(fixedLines, body, date, tags), <<NL>>)
          \o <<NL, DASH3, NL, NL>> \o body

----------------------------------------------------------------------------
\* The article of one round

\* `article-${today}-${uniqueId}.png`
ImageFilename(today, uniqueId) == <<"article-">> \o today \o <<"-", uniqueId, ".png">>
ArticleFilename(today, uniqueId) == <<"article-">> \o today \o <<"-", uniqueId, ".md">>

RECURSIVE ReplaceCoverFrom(_, _, _)
ReplaceCoverFrom(s, i, imageFilename) ==
  IF i > Len(s) THEN <<>>
  ELSE IF i + 1 <= Len(s) /\ s[i] = "cover" /\ s[i + 1] = COLON
       THEN <<"cover", COLON, SP, DQ, "/covers/">> \o imageFilename \o <<DQ>>
            \o ReplaceCoverFrom(s, EndOfLine(s, RunEnd(s, i + 2, {SP, NL})), imageFilename)
       ELSE <<s[i]>> \o ReplaceCoverFrom(s, i + 1, imageFilename)

\* content.replace(/cover:\s*.*/g, `cover: "/covers/${imageFilename}"`)
updateArticleFrontmatter(content, imageFilename) == ReplaceCoverFrom(content, 1, imageFilename)

\* generateArticle, lines 125-139, once the response body is read
generateArticle(content, today, tags, prompt) ==
  [title |-> titleMatch(content),
   content |-> Trim(fixFrontmatterFormat(CleanUp(content), today, tags, prompt))]

\* server.js, lines 124-138
generateArticle_server(content, today, tags) ==
  [title |-> titleMatch(content),
   content |-> Trim(fixFrontmatterFormat_server(CleanUp(content), today, tags))]

----------------------------------------------------------------------------
\* Bounds and sample inputs

MaxArticles == 3
MaxLines == 3

\* new Date().toISOString().slice(0, 10)
Today == <<"2024-01-01">>

\* Math.random().toString(36).substr(2, 6)
UniqueIds == {"u1", "u2"}

\* what the callers send: tags and prompt of the request body
Callers ==
  { [tags |-> <<>>, prompt |-> <<"Foo">>],
    [tags |-> << <<"tech">> >>, prompt |-> <<"Foo">>],
    [tags |-> << <<"zzz">>, <<SP, "AI", SP>> >>, prompt |-> <<"maintain", SP, "website">>],
    [tags |-> << <<"book", SP, "cover", COLON, SP, "art">> >>, prompt |-> <<"Tech", SP, "blog">>],
    [tags |-> << <<"constructor">>, <<"tech">> >>, prompt |-> <<"Foo">>],
    [tags |-> << <<"zzz">>, <<"Web">>, <<"ai">> >>, prompt |-> <<"Tech", SP, "blog">>] }

Line(key, value) == <<key, COLON, SP>> \o value
Quoted(value) == <<DQ>> \o value \o <<DQ>>

\* header blocks a model may answer with; <<>> is an answer without one
Headers ==
  { <<>>,
    Join(<< <<DASH3>>, Line("title", Quoted(<<"Foo">>)), Line("description", Quoted(<<"Text">>)),
            Line("date", <<"1999-12-31">>), Line("tags", <<"[", DQ, "old", DQ, "]">>),
            Line("cover", Quoted(<<"/covers/image-name.png">>)), <<DASH3>>, <<>> >>, <<NL>>),
    Join(<< <<DASH3>>, Line("title", Quoted(<<"Foo">>)), <<DASH3>>, <<>> >>, <<NL>>),
    Join(<< <<DASH3>>, <<SP>> \o Line("title", <<"Foo", SP, "cover", COLON, SP, "Bar">>),
            <<SP>> \o Line("description", <<"Text">>), <<DASH3>>, <<>> >>, <<NL>>),
    Join(<< <<DASH3>>, Line("description", Quoted(<<"Text">>)), Line("author", <<"Bar">>),
            <<SP>> \o Line("title", Quoted(<<"Foo">>)), <<"cover", COLON>>, <<DASH3>>, <<>> >>, <<NL>>),
    Join(<< <<DASH3>>, Line("date", <<"1999-12-31">>), Line("tags", <<"[", DQ, "old", DQ, "]">>),
            <<DASH3>>, <<>> >>, <<NL>>) }

\* lines a model may write in the body
BodyLines ==
  { <<>>,
    <<HASH, SP, "Bar">>,
    <<HASH, HASH, SP, "Bar">>,
    <<"Text">>,
    <<"Title", COLON, SP, "Bar">>,
    <<STAR2, "Summary", COLON, STAR2, SP, "Text">>,
    <<DASH3>> }

\* bodies of at most n lines
RECURSIVE Bodies(_)
Bodies(n) ==
  IF n = 0 THEN {<<>>}
  ELSE Bodies(n - 1) \cup {<< l >> \o b : l \in BodyLines, b \in {x \in Bodies(n - 1) : Len(x) = n - 1}}

Drafts == {h \o Join(b, <<NL>>) : h \in Headers, b \in Bodies(MaxLines)}

\* answers with long runs of line breaks, with a heading marker that stands
\* alone on its line, and with an indented label line
GappedDrafts ==
  { <<HASH, SP, "Bar", NL, NL, NL, NL, "Text">>,
    <<"Text", NL, NL, NL, "Title", COLON, SP, "Bar", NL, NL, NL, NL, NL, "Text">>,
    <<HASH, SP, "Bar", NL, NL, NL, "Text", NL, NL, NL, NL, "Text">>,
    <<HASH, NL, "Text">>,
    <<HASH, HASH, NL, "Text", NL, HASH, SP, NL, "Bar">>,
    <<STAR2, "Title", COLON, STAR2, SP, "Foo", NL, SP, "Title", COLON, SP, "Bar">> }
ShortDrafts == {h \o Join(b, <<NL>>) : h \in Headers, b \in Bodies(1)}

\* the caller of the long drafts
PlainCaller == [tags |-> << <<"tech">> >>, prompt |-> <<"Foo">>]

\* a draft and the caller it is reconciled for
TextInputs ==
  {[draft |-> d, caller |-> PlainCaller] : d \in Drafts \cup GappedDrafts}
  \cup {[draft |-> d, caller |-> c] : d \in ShortDrafts, c \in Callers}

----------------------------------------------------------------------------
\* State

VARIABLES
  \* the request (req.body) and the handler's locals
  pc,            \* the await the handler stands at, "done" or "failed"
  numArticles,
  tags,
  prompt,
  i,             \* the loop counter of the handler
  baseTreeSha,   \* const baseTreeSha = ref.object.sha
  article,       \* what generateArticle returned in this round
  coverImage,    \* what generateCoverImage drew in this round
  files,         \* the files argument of uploadToGitHub in this round
  treeSha,       \* treeData.sha inside uploadToGitHub
  commitSha,     \* commitData.sha inside uploadToGitHub
  response,      \* what the handler answered
  \* the repository on the hosting service
  trees,         \* tree objects: sets of paths
  commits,       \* commit objects: [parent, tree]
  branchTip,     \* heads/<branch>
  \* history, kept for the properties
  genOutcome,    \* the answer of this round's generation call
  emojiOutcome,  \* the answer of this round's emoji call
  calls,         \* the publish calls made: [round, api]
  uploadBase,    \* the base handed to uploadToGitHub in this round
  published,     \* per round: the commit its updateRef made the tip, 0 if none
  failure,       \* the round and stage of the error the handler caught
  \* the reconciliation applied on its own to a draft
  draft,
  tpc,
  out

handlerVars == <<pc, numArticles, i, baseTreeSha, article, coverImage, files, treeSha,
                 commitSha, response, trees, commits, branchTip, genOutcome, emojiOutcome,
                 calls, uploadBase, published, failure>>
textVars == <<draft, tpc, out>>
vars == <<handlerVars, textVars, tags, prompt>>

Rounds == 1..MaxArticles
NoArticle == [title |-> <<>>, content |-> <<>>]
NoImage == [title |-> <<>>, tags |-> <<>>, emojis |-> <<>>]
NoFiles == [article |-> [path |-> <<>>, content |-> <<>>], image |-> [path |-> <<>>, content |-> NoImage]]
NoFailure == [round |-> 0, stage |-> "none"]

----------------------------------------------------------------------------
\* The reconciliation on its own: every operation applied to a bounded draft

HandlerIdle ==
  /\ pc = "idle" /\ numArticles = 0 /\ i = 0 /\ baseTreeSha = 0
  /\ article = NoArticle /\ coverImage = NoImage /\ files = NoFiles
  /\ treeSha = 0 /\ commitSha = 0 /\ response = "none"
  /\ trees = << {} >> /\ commits = << [parent |-> 0, tree |-> 1] >> /\ branchTip = 1
  /\ genOutcome = "none" /\ emojiOutcome = "none"
  /\ calls = {} /\ uploadBase = 0 /\ published = [r \in Rounds |-> 0]
  /\ failure = NoFailure

InitText ==
  /\ HandlerIdle
  /\ \E x \in TextInputs : draft = x.draft /\ tags = x.caller.tags /\ prompt = x.caller.prompt
  /\ tpc = "draft"
  /\ out = NoArticle

\* fixFrontmatterFormat of the emoji variant, on the draft as it is
Reconcile ==
  /\ tpc = "draft"
  /\ out' = [title |-> <<>>, content |-> fixFrontmatterFormat(draft, Today, tags, prompt)]
  /\ tpc' = "fixed"
  /\ UNCHANGED <<handlerVars, draft, tags, prompt>>

\* fixFrontmatterFormat of server.js, on the draft as it is
ReconcileServer ==
  /\ tpc = "draft"
  /\ out' = [title |-> <<>>, content |-> fixFrontmatterFormat_server(draft, Today, tags)]
  /\ tpc' = "fixedServer"
  /\ UNCHANGED <<handlerVars, draft, tags, prompt>>

\* generateArticle of the emoji variant, from the response text on
Generate ==
  /\ tpc = "draft"
  /\ out' = generateArticle(draft, Today, tags, prompt)
  /\ tpc' = "generated"
  /\ UNCHANGED <<handlerVars, draft, tags, prompt>>

\* generateArticle of server.js, from the response text on
GenerateServer ==
  /\ tpc = "draft"
  /\ out' = generateArticle_server(draft, Today, tags)
  /\ tpc' = "generatedServer"
  /\ UNCHANGED <<handlerVars, draft, tags, prompt>>

\* the handler's updateArticleFrontmatter(article.content, imageFilename)
UpdateCover ==
  /\ tpc = "generated"
  /\ \E u \in UniqueIds :
       out' = [out EXCEPT !.content = updateArticleFrontmatter(out.content, ImageFilename(Today, u))]
  /\ tpc' = "finished"
  /\ UNCHANGED <<handlerVars, draft, tags, prompt>>

\* the finished text of a round handed to generateArticle again as a response
Rerun ==
  /\ tpc = "generated"
  /\ out' = generateArticle(out.content, Today, tags, prompt)
  /\ tpc' = "rerun"
  /\ UNCHANGED <<handlerVars, draft, tags, prompt>>

NextText == Reconcile \/ ReconcileServer \/ Generate \/ GenerateServer \/ UpdateCover \/ Rerun

SpecText == InitText /\ [][NextText]_vars

----------------------------------------------------------------------------
\* The collaborators' answers

\* answers of the model the handler is tried with
SampleDrafts ==
  { Join(<< <<DASH3>>, Line("title", Quoted(<<"Foo">>)), Line("description", Quoted(<<"Text">>)),
            Line("date", <<"1999-12-31">>), Line("tags", <<"[", DQ, "old", DQ, "]">>),
            Line("cover", Quoted(<<"/covers/image-name.png">>)), <<DASH3>>, <<>>,
            <<HASH, SP, "Foo">>, <<>>, <<"Text">> >>, <<NL>>),
    Join(<< <<HASH, SP, "Bar">>, <<"Text">> >>, <<NL>>),
    Join(<< <<"Title", COLON, SP, "Bar">>, <<"Text">> >>, <<NL>>) }

\* what fetch and response.json() can give for the generation call: the
\* request is rejected, the status is not a success (an error body without
\* choices), the body is no JSON, the body has no choices, or it has content
GenResponses ==
  {[kind |-> k, content |-> <<>>] : k \in {"rejected", "notOk", "invalidJson", "noChoices"}}
  \cup {[kind |-> "content", content |-> d] : d \in SampleDrafts}

\* the same for the emoji call
EmojiResponses ==
  {[kind |-> k, content |-> <<>>] : k \in {"rejected", "notOk", "invalidJson", "noChoices"}}
  \cup {[kind |-> "content", content |-> c] : c \in {<<>>, <<SP>>, <<"E-robot", "E-laptop">>}}

DefaultEmojis == <<"E-memo", "E-page">>

\* generateArticle, lines 103-124: fetch rejects, `if (!response.ok) throw`,
\* response.json() rejects
GenerationThrows_noStatusCheck(r) == r.kind \in {"rejected", "invalidJson"}
GenerationThrows(r) == r.kind \in {"rejected", "notOk", "invalidJson"}

\* result.choices?.[0]?.message?.content || ''
ContentOf(r) == IF r.kind = "content" THEN r.content ELSE <<>>

\* generateCoverImage, lines 318-332: fetch rejects or response.json()
\* rejects; the status is not looked at
RenderThrows(r) == r.kind \in {"rejected", "invalidJson"}

\* result.choices?.[0]?.message?.content?.trim() || default
Emojis(r) == IF Trim(ContentOf(r)) # <<>> THEN Trim(ContentOf(r)) ELSE DefaultEmojis

----------------------------------------------------------------------------
\* The repository

ArticlePath(name) == <<"src/content/blog/">> \o name
ImagePath(name) == <<"public/covers/">> \o name

TreeOf(sha) == trees[commits[sha].tree]

\* uploadToGitHub, lines 382-393: one tree entry per file handed over
TreeEntries_articleOnly(f) == {f.article.path}
TreeEntries(f) == {f.article.path, f.image.path}

RECURSIVE IsAncestor(_, _)
IsAncestor(a, c) == a = c \/ (commits[c].parent # 0 /\ IsAncestor(a, commits[c].parent))

\* updateRef is called without `force`: the service moves the branch only
\* to a commit that descends from its tip
UpdateRefAccepted_forced(sha, tip) == TRUE
UpdateRefAccepted(sha, tip) == IsAncestor(tip, sha)

----------------------------------------------------------------------------
\* POST /api/generate

HandlerCallers ==
  { [tags |-> << <<"tech">> >>, prompt |-> <<"Foo">>],
    [tags |-> << <<"zzz">>, <<SP, "AI", SP>> >>, prompt |-> <<"maintain", SP, "website">>] }

TextIdle == draft = <<>> /\ tpc = "idle" /\ out = NoArticle

Init ==
  /\ pc = "getRef"
  /\ numArticles \in 0..MaxArticles
  /\ \E c \in HandlerCallers : tags = c.tags /\ prompt = c.prompt
  /\ i = 0 /\ baseTreeSha = 0
  /\ article = NoArticle /\ coverImage = NoImage /\ files = NoFiles
  /\ treeSha = 0 /\ commitSha = 0 /\ response = "none"
  /\ trees = << {} >> /\ commits = << [parent |-> 0, tree |-> 1] >> /\ branchTip = 1
  /\ genOutcome = "none" /\ emojiOutcome = "none"
  /\ calls = {} /\ uploadBase = 0 /\ published = [r \in Rounds |-> 0]
  /\ failure = NoFailure
  /\ TextIdle

\* the catch block: the error is logged and answered with status 500
Caught(stage) ==
  /\ pc' = "failed"
  /\ response' = "error"
  /\ failure' = [round |-> i, stage |-> stage]

\* the loop test `i <= numArticles`, then the next round or the answer
LoopFrom(n) ==
  /\ i' = n
  /\ IF n <= numArticles
     THEN pc' = "generateArticle" /\ response' = response
     ELSE pc' = "done" /\ response' = "success"

\* lines 28-34: await octokit.rest.git.getRef, read once before the loop
GetRef ==
  /\ pc = "getRef"
  /\ \/ /\ baseTreeSha' = branchTip
        /\ LoopFrom(1)
        /\ UNCHANGED failure
     \/ /\ Caught("getRef")
        /\ UNCHANGED <<i, baseTreeSha>>
  /\ UNCHANGED <<numArticles, article, coverImage, files, treeSha, commitSha, trees, commits,
                 branchTip, genOutcome, emojiOutcome, calls, uploadBase, published,
                 textVars, tags, prompt>>

\* line 38: await generateArticle(...)
GenerateArticle ==
  /\ pc = "generateArticle"
  /\ \E r \in GenResponses :
       /\ genOutcome' = r.kind
       /\ IF GenerationThrows(r)
          THEN Caught("generateArticle") /\ UNCHANGED article
          ELSE /\ article' = generateArticle(ContentOf(r), Today, tags, prompt)
               /\ pc' = "generateCoverImage"
               /\ UNCHANGED <<response, failure>>
  /\ emojiOutcome' = "none"
  /\ UNCHANGED <<numArticles, i, baseTreeSha, coverImage, files, treeSha, commitSha, trees,
                 commits, branchTip, calls, uploadBase, published, textVars, tags, prompt>>

\* lines 41-53: await generateCoverImage(article.title, tags), the file
\* names, updateArticleFrontmatter and the call of uploadToGitHub up to its
\* first await
GenerateCoverImage ==
  /\ pc = "generateCoverImage"
  /\ \E r \in EmojiResponses, u \in UniqueIds :
       /\ emojiOutcome' = IF r.kind = "content" /\ Trim(r.content) = <<>> THEN "emptyContent"
                          ELSE r.kind
       /\ IF RenderThrows(r)
          THEN Caught("generateCoverImage") /\ UNCHANGED <<coverImage, files, uploadBase>>
          ELSE /\ coverImage' = [title |-> article.title, tags |-> tags, emojis |-> Emojis(r)]
               /\ files' =
                    [article |-> [path |-> ArticlePath(ArticleFilename(Today, u)),
                                  content |-> updateArticleFrontmatter(article.content,
                                                                       ImageFilename(Today, u))],
                     image |-> [path |-> ImagePath(ImageFilename(Today, u)),
                                content |-> coverImage']]
               /\ uploadBase' = baseTreeSha
               /\ pc' = "createTree"
               /\ UNCHANGED <<response, failure>>
  /\ UNCHANGED <<numArticles, i, baseTreeSha, article, treeSha, commitSha, trees, commits,
                 branchTip, genOutcome, calls, published, textVars, tags, prompt>>

\* lines 396-401: await octokit.rest.git.createTree({tree, base_tree})
CreateTree ==
  /\ pc = "createTree"
  /\ calls' = calls \cup {[round |-> i, api |-> "createTree"]}
  /\ \/ /\ trees' = Append(trees, TreeOf(uploadBase) \cup TreeEntries(files))
        /\ treeSha' = Len(trees) + 1
        /\ pc' = "createCommit"
        /\ UNCHANGED <<response, failure>>
     \/ /\ Caught("createTree")
        /\ UNCHANGED <<trees, treeSha>>
  /\ UNCHANGED <<numArticles, i, baseTreeSha, article, coverImage, files, commitSha, commits,
                 branchTip, genOutcome, emojiOutcome, uploadBase, published, textVars,
                 tags, prompt>>

\* lines 404-410: await octokit.rest.git.createCommit({tree, parents})
CreateCommit ==
  /\ pc = "createCommit"
  /\ calls' = calls \cup {[round |-> i, api |-> "createCommit"]}
  /\ \/ /\ commits' = Append(commits, [parent |-> uploadBase, tree |-> treeSha])
        /\ commitSha' = Len(commits) + 1
        /\ pc' = "updateRef"
        /\ UNCHANGED <<response, failure>>
     \/ /\ Caught("createCommit")
        /\ UNCHANGED <<commits, commitSha>>
  /\ UNCHANGED <<numArticles, i, baseTreeSha, article, coverImage, files, treeSha, trees,
                 branchTip, genOutcome, emojiOutcome, uploadBase, published, textVars,
                 tags, prompt>>

\* lines 413-418: await octokit.rest.git.updateRef({ref, sha}); then the
\* round ends and the loop goes on
UpdateRef ==
  /\ pc = "updateRef"
  /\ calls' = calls \cup {[round |-> i, api |-> "updateRef"]}
  /\ \/ /\ UpdateRefAccepted(commitSha, branchTip)
        /\ branchTip' = commitSha
        /\ published' = [published EXCEPT ![i] = commitSha]
        /\ LoopFrom(i + 1)
        /\ article' = NoArticle /\ coverImage' = NoImage /\ files' = NoFiles
        /\ treeSha' = 0 /\ commitSha' = 0 /\ uploadBase' = 0
        /\ genOutcome' = "none" /\ emojiOutcome' = "none"
        /\ UNCHANGED failure
     \/ /\ Caught("updateRef")
        /\ UNCHANGED <<i, branchTip, published, article, coverImage, files, treeSha,
                       commitSha, uploadBase, genOutcome, emojiOutcome>>
  /\ UNCHANGED <<numArticles, baseTreeSha, trees, commits, textVars, tags, prompt>>

Next == GetRef \/ GenerateArticle \/ GenerateCoverImage \/ CreateTree \/ CreateCommit \/ UpdateRef

Spec == Init /\ [][Next]_vars

----------------------------------------------------------------------------
\* Reading a finished text back, for the properties

AllLines(content) == Split(content, NL)

\* the index of the line that closes the header block, 0 when the text does
\* not begin with a block delimited by two '---' lines
HeaderClose(content) ==
  LET lines == AllLines(content)
      closing == {j \in 2..Len(lines) : lines[j] = <<DASH3>>}
  IN IF lines[1] = <<DASH3>> /\ closing # {} THEN MinOf(closing) ELSE 0

HeaderLines(content) ==
  IF HeaderClose(content) = 0 THEN <<>>
  ELSE SubSeq(AllLines(content), 2, HeaderClose(content) - 1)

LinesAfterHeader(content) ==
  SubSeq(AllLines(content), HeaderClose(content) + 1, Len(AllLines(content)))

KeyOf(line) == IF Len(line) >= 2 /\ line[2] = COLON THEN line[1] ELSE ""

HeaderKeys(content) == [k \in 1..Len(HeaderLines(content)) |-> KeyOf(HeaderLines(content)[k])]

\* the text after `key: ` on the first header line of that key
HeaderValue(content, key) ==
  LET hl == HeaderLines(content)
      at == {k \in 1..Len(hl) : StartsWith(hl[k], <<key, COLON, SP>>)}
  IN IF at = {} THEN <<"<absent>">> ELSE From(hl[MinOf(at)], 4)

Unquote(v) ==
  IF Len(v) >= 2 /\ v[1] = DQ /\ v[Len(v)] = DQ THEN SubSeq(v, 2, Len(v) - 1) ELSE <<"<unquoted>">> \o v

UnquoteItem(v) == Unquote(Trim(v))

\* the list a `["a", "b"]` field denotes
ParseTags(v) ==
  IF v = <<"[", "]">> THEN <<>>
  ELSE IF Len(v) >= 2 /\ v[1] = "[" /\ v[Len(v)] = "]"
       THEN LET items == Split(SubSeq(v, 2, Len(v) - 1), ",")
            IN [k \in 1..Len(items) |-> UnquoteItem(items[k])]
       ELSE << <<"<no list>">> >>

PublishStages == {"createTree", "createCommit", "updateRef"}

\* the paths a commit adds to its parent's tree
Added(sha) == TreeOf(sha) \ TreeOf(commits[sha].parent)

\* a tree holds the article of a file name exactly if it holds its image
Balanced(tree) ==
  \A u \in UniqueIds :
    ArticlePath(ArticleFilename(Today, u)) \in tree <=> ImagePath(ImageFilename(Today, u)) \in tree

----------------------------------------------------------------------------
\* Properties of the request handler (specification Spec)

\* C1: in every round i >= 2, the base handed to uploadToGitHub (base_tree and
\* commit parent) is the branch tip that round i-1's publish produced.
C1_BaseIsPreviousRoundTip ==
  (pc \in PublishStages /\ i >= 2) => uploadBase = published[i - 1]

\* C2: a publish call (createTree, createCommit, updateRef) is made in a round
\* only after that round's generation call answered with a success status and
\* its render returned; once generation or render failed in a round, no publish
\* call exists for that round or any later one.
C2_PublishOnlyAfterGenerationAndRender ==
  /\ \A c \in calls :
       /\ c.round <= i
       /\ c.round = i => /\ genOutcome \in {"content", "noChoices"}
                         /\ emojiOutcome \notin {"none", "rejected", "invalidJson"}
  /\ failure.stage \in {"generateArticle", "generateCoverImage"}
       => \A c \in calls : c.round < failure.round

C2_RenderFailedInSecondRound ==
  /\ failure = [round |-> 2, stage |-> "generateCoverImage"]
  /\ [round |-> 1, api |-> "updateRef"] \in calls
  /\ emojiOutcome = "rejected"

\* C3: every commit uploadToGitHub creates holds the round's article and its
\* cover image, and the branch never points to a commit whose tree has an
\* article without its image or an image without its article, also when
\* createTree, createCommit or updateRef fails part-way.
C3_PublishIsAtomic ==
  /\ \A t \in 1..Len(trees) : Balanced(trees[t])
  /\ Balanced(TreeOf(branchTip))
  /\ \A c \in 2..Len(commits) :
       \E u \in UniqueIds :
         Added(c) = {ArticlePath(ArticleFilename(Today, u)), ImagePath(ImageFilename(Today, u))}
  /\ pc = "updateRef" => {files.article.path, files.image.path} \subseteq TreeOf(commitSha)

C3_FailedPartWayAfterAPublish ==
  /\ published[1] # 0
  /\ branchTip = published[1]
  /\ failure = [round |-> 2, stage |-> "updateRef"]
  /\ Len(commits) = 3

\* C4: when round k fails, what the rounds 1..k-1 committed is still in the
\* tree of the branch tip when the request ends.
C4_EarlierRoundsSurviveFailure ==
  pc = "failed" =>
    \A r \in Rounds :
      r < failure.round =>
        /\ published[r] # 0
        /\ Added(published[r]) # {}
        /\ Added(published[r]) \subseteq TreeOf(branchTip)

C4_SecondRoundFailed ==
  /\ pc = "failed"
  /\ failure.round = 2
  /\ published[1] # 0
  /\ response = "error"

\* C5: whatever the emoji call gives (rejected request, non-success status,
\* body that is no JSON, missing or empty content), the round does not fail in
\* the render: the default pair is used and the round goes on to publish.
C5_EmojiCallNeverFailsRound ==
  emojiOutcome \in {"rejected", "notOk", "invalidJson", "noChoices", "emptyContent"} =>
    /\ failure.stage # "generateCoverImage"
    /\ coverImage.emojis = DefaultEmojis

\* C10: the title handed to generateCoverImage is the emoji-decorated title of
\* the title field of the round's article header, and the tags handed over are
\* the caller's.
C10_CoverTitleIsHeaderTitle ==
  pc \in PublishStages =>
    /\ coverImage.title = Unquote(HeaderValue(article.content, "title"))
    /\ coverImage.tags = tags

----------------------------------------------------------------------------
\* Properties of the reconciliation (specification SpecText)

TrimmedTags == [k \in 1..Len(tags) |-> Trim(tags[k])]

\* C6: in the finished article the date field is the caller's date and the tags
\* field lists the caller's tags in their order, whatever the draft holds.
C6_DateAndTagsAreTheCallers ==
  tpc = "finished" =>
    /\ HeaderValue(out.content, "date") = Today
    /\ ParseTags(HeaderValue(out.content, "tags")) = TrimmedTags

FiveKeys == <<"title", "description", "date", "tags", "cover">>

\* C7: the output of fixFrontmatterFormat, in the emoji variant and in
\* server.js, begins with a header block between two '---' lines that holds the
\* keys title, description, date, tags, cover once each, in that order, and no
\* other line.
C7_HeaderHasTheFiveKeys ==
  tpc \in {"fixed", "fixedServer"} =>
    /\ HeaderClose(out.content) # 0
    /\ HeaderKeys(out.content) = FiveKeys

\* C8: running generateArticle's clean-up and fixFrontmatterFormat again on
\* their own output leaves the title with the one emoji prefix it had.
C8_RerunKeepsSingleEmojiPrefix ==
  tpc = "rerun" =>
    HeaderValue(out.content, "title")
      = HeaderValue(generateArticle(draft, Today, tags, prompt).content, "title")

\* C9: the body after the header begins with a top-level heading whose text is
\* the decorated title of the header's title field.
C9_BodyBeginsWithDecoratedTitle ==
  tpc \in {"fixed", "generated"} =>
    /\ LinesAfterHeader(out.content) # <<>>
    /\ LinesAfterHeader(out.content)[1]
         = <<HASH, SP>> \o Unquote(HeaderValue(out.content, "title"))

\* C11: the fields are extracted from the raw model text, before the clean-up:
\* when the draft has a header block (two '---' delimiters or more) with a
\* title line of a non-empty value, the title generateArticle resolves is that
\* header value (with the emoji prefix), not one derived from the body.
C11_TitleIsTheRawHeaderTitle ==
  (tpc = "generated" /\ Len(Split(draft, DASH3)) >= 3 /\ ParseDraft(draft).title # <<>>) =>
    Unquote(HeaderValue(out.content, "title"))
      = escapeYamlString(addEmojiToTitle(ParseDraft(draft).title, tags, prompt))

\* a line that is a redundant label: 'Title:' or 'Summary:' in any case, at the
\* start of the line or after heading markers and blanks
LabelLine(line) ==
  LET rest == IF line # <<>> /\ line[1] = HASH
              THEN From(line, RunEnd(line, RunEnd(line, 1, {HASH}), {SP}))
              ELSE line
  IN Len(rest) >= 2 /\ Lower(rest[1]) \in {"title", "summary"} /\ rest[2] = COLON

\* C12: the body of the finished article holds no line that starts with
\* optional heading markers followed by 'Title:' or 'Summary:' in any case,
\* however many such lines the draft has and wherever they are, also those that
\* take this form only once the emphasis markers around the label are gone.
C12_NoLabelLineInBody ==
  tpc \in {"generated", "finished"} =>
    \A k \in 1..Len(LinesAfterHeader(out.content)) : ~LabelLine(LinesAfterHeader(out.content)[k])

\* a text as its maximal runs of line breaks (n their length) and the
\* stretches of other characters between them (n = 0)
RECURSIVE SegmentsFrom(_, _)
SegmentsFrom(s, at) ==
  IF at > Len(s) THEN <<>>
  ELSE LET e == IF s[at] = NL THEN RunEnd(s, at, {NL}) ELSE RunEndNot(s, at, {NL})
       IN << [n |-> IF s[at] = NL THEN e - at ELSE 0,
              txt |-> IF s[at] = NL THEN <<>> ELSE SubSeq(s, at, e - 1)] >>
          \o SegmentsFrom(s, e)

Segments(s) == SegmentsFrom(s, 1)

BodyText(content) == Join(LinesAfterHeader(content), <<NL>>)

\* the text generateArticle hands to its third substitution
BeforeCollapse == StripBold(RemoveLabelLines(draft))

\* C13: the clean-up turns every run of three or more consecutive line breaks
\* of its input (so every run of four or more blank lines) into exactly two
\* and leaves everything else as it is, and the body of the finished article
\* never holds a run of three or more consecutive line breaks.
C13_BreakRunsCollapseToTwo ==
  /\ tpc = "generated" =>
       LET before == Segments(BeforeCollapse)
       IN Segments(CollapseBreaks(BeforeCollapse))
            = [k \in 1..Len(before) |->
                 IF before[k].n >= 3 THEN [n |-> 2, txt |-> <<>>] ELSE before[k]]
  /\ tpc \in {"generated", "finished"} =>
       LET body == Segments(BodyText(out.content))
       IN \A k \in 1..Len(body) : body[k].n <= 2

C13_LongRunsInsideTheBody ==
  /\ tpc = "finished"
  /\ \E j, k \in 2..(Len(Segments(draft)) - 1) :
       j # k /\ Segments(draft)[j].n = 3 /\ Segments(draft)[k].n >= 5
  /\ \E k \in 1..Len(Segments(BodyText(out.content))) : Segments(BodyText(out.content))[k].n = 2

\* the title the fallback chain names for a body: the text of its first
\* '# ' line; else its first non-blank line without its leading '#' markers;
\* else the placeholder
ChainTitle(body) ==
  LET lines == Split(body, NL)
      headings == {k \in 1..Len(lines) :
                     Len(lines[k]) >= 2 /\ lines[k][1] = HASH /\ lines[k][2] = SP}
      nonBlank == {k \in 1..Len(lines) : Trim(lines[k]) # <<>>}
      first == Trim(lines[MinOf(nonBlank)])
  IN IF headings # {} THEN Trim(From(lines[MinOf(headings)], 3))
     ELSE IF nonBlank # {}
          THEN Trim(From(first, RunEnd(first, 1, {HASH})))
     ELSE <<"Untitled Article">>

\* C14: when the header block yields no title, the resolved title is the text
\* of the first '# ' heading found anywhere in the body; without one, the first
\* non-blank body line with its leading '#' markers stripped; and only for a
\* blank body the placeholder 'Untitled Article'.
C14_TitleFallbackChain ==
  (tpc = "fixed" /\ ParseDraft(draft).title = <<>>) =>
    Unquote(HeaderValue(out.content, "title"))
      = escapeYamlString(addEmojiToTitle(ChainTitle(ParseDraft(draft).body), tags, prompt))

\* the title fixFrontmatterFormat resolves, before the emoji prefix
TitleBeforeEmoji(content) ==
  IF ParseDraft(content).title = <<>> THEN extractTitleFromBody(ParseDraft(content).body)
  ELSE ParseDraft(content).title

\* the description the fallback names: the first non-blank line that is no
\* heading after the first '# ' line of the body, else the template on `title`
ChainDescription(body, title) ==
  LET lines == Split(body, NL)
      headings == {k \in 1..Len(lines) :
                     Len(lines[k]) >= 2 /\ lines[k][1] = HASH /\ lines[k][2] = SP}
      after == IF headings = {} THEN {}
               ELSE {k \in (MinOf(headings) + 1)..Len(lines) :
                       Trim(lines[k]) # <<>> /\ lines[k][1] # HASH}
  IN IF after # {} THEN Trim(lines[MinOf(after)])
     ELSE <<"Learn more about", SP>> \o LowerSeq(title) \o <<".">>

\* C15: when the header block yields no description, the description is the
\* first non-blank, non-heading line after the first '# ' heading of the body;
\* without such a line it is 'Learn more about <t>.' with <t> the lower-cased
\* title that is written to the header (before the emoji prefix), also when
\* that title came from the header block.
C15_DescriptionFallback ==
  (tpc = "fixed" /\ ParseDraft(draft).description = <<>>) =>
    Unquote(HeaderValue(out.content, "description"))
      = escapeYamlString(ChainDescription(ParseDraft(draft).body, TitleBeforeEmoji(draft)))

\* the emoji of the first match: the first tag that is, in lower case, a
\* keyword of the table; else the first keyword of the table that the
\* lower-cased prompt contains; else the fallback
FirstMatchEmoji ==
  LET isKey(w) == \E j \in 1..Len(emojiMap) : emojiMap[j].key = w
      emojiOf(w) == emojiMap[CHOOSE j \in 1..Len(emojiMap) : emojiMap[j].key = w].emoji
      tagHits == {k \in 1..Len(tags) : isKey(LowerSeq(tags[k]))}
      keyHits == {j \in 1..Len(emojiMap) : Includes(LowerSeq(prompt), emojiMap[j].key)}
  IN IF tagHits # {} THEN emojiOf(LowerSeq(tags[MinOf(tagHits)]))
     ELSE IF keyHits # {} THEN emojiMap[MinOf(keyHits)].emoji
     ELSE "E-memo"

\* C16: addEmojiToTitle puts exactly one emoji and a space in front of the
\* title, chosen by first match: the first of the caller's tags that is, in any
\* case, a keyword of the table; only without one, the first keyword of the
\* table, in table order, found inside the lower-cased prompt; only without
\* either, the fallback emoji.
C16_EmojiByFirstMatch ==
  tpc = "fixed" =>
    Unquote(HeaderValue(out.content, "title"))
      = escapeYamlString(<<FirstMatchEmoji, SP>> \o TitleBeforeEmoji(draft))

\* a finished text with the cover line of its header block set to the path of
\* an image file, and every other line as it is
WithCoverOf(content, imageFilename) ==
  LET lines == AllLines(content)
  IN Join([k \in 1..Len(lines) |->
             IF 1 < k /\ k < HeaderClose(content) /\ KeyOf(lines[k]) = "cover"
             THEN <<"cover", COLON, SP, DQ, "/covers/">> \o imageFilename \o <<DQ>>
             ELSE lines[k]],
          <<NL>>)

\* C17: updateArticleFrontmatter changes only the cover line of the header
\* block: the cover value becomes '/covers/<image file name>', and every other
\* header line and every body line is the input's, also when a title, a
\* description, a tag or the body holds the characters 'cover:'.
C17_OnlyTheCoverLineChanges ==
  tpc = "finished" =>
    \E u \in UniqueIds :
      out.content = WithCoverOf(generateArticle(draft, Today, tags, prompt).content,
                                ImageFilename(Today, u))

====
